---- MODULE Spec2Model ----
(***************************************************************************)
(* A model of the pushover command-line client (src/src/main.rs and the    *)
(* library copies of its helpers in src/src/lib.rs).                       *)
(*                                                                         *)
(* Text is modelled as a sequence of Unicode scalar values (Rust `char`s), *)
(* bytes as a sequence of 0..255.  Option<T> is a sequence of length at    *)
(* most one: None is <<>> and Some(x) is <<x>>.                            *)
(***************************************************************************)
EXTENDS Integers, Sequences, FiniteSets, TLC

\* ------------------------------------------------------------------------
\* Bounds of the model
\* ------------------------------------------------------------------------

\* longest text handed to url_encode on its own
MaxLen == 2

\* longest remainder after the scheme of the URLs handed to parse_url
MaxRest == 3

\* longest argument list (argv without the program name)
MaxArgs == 4

\* most bytes a peer sends before it closes, fails or stalls
MaxResp == 4

\* ------------------------------------------------------------------------
\* Option<T>, sequences
\* ------------------------------------------------------------------------

None == <<>>

Some(x) == <<x>>

IsSome(o) == Len(o) = 1

Unwrap(o) == o[1]

RECURSIVE Concat(_)
\* Iterator<Item = String>::collect::<String>(): the pieces in order
Concat(ss) ==
  IF ss = <<>> THEN <<>>
  ELSE IF Len(ss) = 1 THEN ss[1]
  ELSE LET h == Len(ss) \div 2 IN
       Concat(SubSeq(ss, 1, h)) \o Concat(SubSeq(ss, h + 1, Len(ss)))

RECURSIVE Join(_, _)
\* [String]::join(sep)
Join(parts, sep) ==
  IF parts = <<>> THEN <<>>
  ELSE IF Len(parts) = 1 THEN parts[1]
  ELSE parts[1] \o sep \o Join(Tail(parts), sep)

\* index of the first occurrence of ch in s, 0 when there is none (str::find)
IndexOf(s, ch) ==
  IF \E k \in 1..Len(s) : s[k] = ch
  THEN CHOOSE k \in 1..Len(s) : s[k] = ch /\ \A j \in 1..(k - 1) : s[j] # ch
  ELSE 0

\* str::starts_with
StartsWith(s, p) == Len(s) >= Len(p) /\ SubSeq(s, 1, Len(p)) = p

\* &s[n..]
SliceFrom(s, n) == SubSeq(s, n + 1, Len(s))

\* str::contains(&str)
Contains(s, p) ==
  \E k \in 0..(Len(s) - Len(p)) : SubSeq(s, k + 1, k + Len(p)) = p

\* str::splitn(2, ch).collect(): one part when ch is absent, else two
SplitN2(s, ch) ==
  LET k == IndexOf(s, ch) IN
  IF k = 0 THEN <<s>> ELSE <<SubSeq(s, 1, k - 1), SubSeq(s, k + 1, Len(s))>>

\* ------------------------------------------------------------------------
\* UTF-8 and number formatting (std)
\* ------------------------------------------------------------------------

\* char::to_string().into_bytes(): the UTF-8 encoding of one scalar value
Utf8Bytes(c) ==
  IF c < 128 THEN <<c>>
  ELSE IF c < 2048 THEN <<192 + (c \div 64), 128 + (c % 64)>>
  ELSE IF c < 65536
    THEN <<224 + (c \div 4096), 128 + ((c \div 64) % 64), 128 + (c % 64)>>
  ELSE <<240 + (c \div 262144), 128 + ((c \div 4096) % 64),
         128 + ((c \div 64) % 64), 128 + (c % 64)>>

\* str::as_bytes(): the UTF-8 encoding of a text
AsBytes(s) == Concat([k \in 1..Len(s) |-> Utf8Bytes(s[k])])

\* str::len(): the length in bytes
ByteLen(s) == Len(AsBytes(s))

\* one uppercase hexadecimal digit as a character
HexDigit(d) == IF d < 10 THEN 48 + d ELSE 55 + d

\* format!("%{:02X}", b) for a u8
PercentHex(b) == <<37, HexDigit(b \div 16), HexDigit(b % 16)>>

RECURSIVE DecimalNat(_)
\* format!("{}", n) for n >= 0
DecimalNat(n) ==
  IF n < 10 THEN <<48 + n>> ELSE DecimalNat(n \div 10) \o <<48 + (n % 10)>>

\* format!("{}", n) for a signed integer
Decimal(n) == IF n < 0 THEN <<45>> \o DecimalNat(0 - n) ELSE DecimalNat(n)

IsDigit(c) == c \in 48..57

RECURSIVE DigitsValue(_)
\* the value of a run of decimal digits
DigitsValue(ds) ==
  IF ds = <<>> THEN 0
  ELSE DigitsValue(SubSeq(ds, 1, Len(ds) - 1)) * 10 + (ds[Len(ds)] - 48)

\* a variant of ParseU16: the value is parsed into 32 bits and not range-checked
ParseU16Wide(s) ==
  LET ds == IF s # <<>> /\ s[1] = 43 THEN Tail(s) ELSE s IN
  IF ds = <<>> \/ \E k \in 1..Len(ds) : ~IsDigit(ds[k])
  THEN [ok |-> FALSE, val |-> 0]
  ELSE [ok |-> TRUE, val |-> DigitsValue(ds)]

\* str::parse::<u16>(): an optional `+`, then at least one digit, at most 65535
ParseU16(s) ==
  LET ds == IF s # <<>> /\ s[1] = 43 THEN Tail(s) ELSE s IN
  IF ds = <<>> \/ \E k \in 1..Len(ds) : ~IsDigit(ds[k])
  THEN [ok |-> FALSE, val |-> 0]
  ELSE IF DigitsValue(ds) > 65535 THEN [ok |-> FALSE, val |-> 0]
  ELSE [ok |-> TRUE, val |-> DigitsValue(ds)]

\* str::parse::<i8>(): an optional sign, then at least one digit, in -128..127
ParseI8(s) ==
  LET signed == s # <<>> /\ s[1] \in {43, 45}
      ds == IF signed THEN Tail(s) ELSE s
      v == IF s # <<>> /\ s[1] = 45 THEN 0 - DigitsValue(ds) ELSE DigitsValue(ds)
  IN
  IF ds = <<>> \/ \E k \in 1..Len(ds) : ~IsDigit(ds[k])
  THEN [ok |-> FALSE, val |-> 0]
  ELSE IF v < -128 \/ v > 127 THEN [ok |-> FALSE, val |-> 0]
  ELSE [ok |-> TRUE, val |-> v]

\* ------------------------------------------------------------------------
\* url_encode and parse_url: the binary's copies (main.rs)
\* ------------------------------------------------------------------------

\* a variant of url_encode_char: `&` is left as it is
url_encode_char_amp(c) ==
  IF c \in 65..90 \/ c \in 97..122 \/ c \in 48..57 \/ c \in {45, 95, 46, 126, 38}
  THEN <<c>>
  ELSE IF c = 32 THEN <<43>>
  ELSE LET bytes == Utf8Bytes(c) IN
       Concat([k \in 1..Len(bytes) |-> PercentHex(bytes[k])])

\* the closure of url_encode: the image of one character
url_encode_char(c) ==
  IF c \in 65..90 \/ c \in 97..122 \/ c \in 48..57 \/ c \in {45, 95, 46, 126}
  THEN <<c>>
  ELSE IF c = 32 THEN <<43>>
  ELSE LET bytes == Utf8Bytes(c) IN
       Concat([k \in 1..Len(bytes) |-> PercentHex(bytes[k])])

url_encode(s) == Concat([k \in 1..Len(s) |-> url_encode_char(s[k])])

\* "https://"
HttpsPrefix == <<104, 116, 116, 112, 115, 58, 47, 47>>

\* Ok((host, port, path)) or Err(err)
UrlOk(host, port, path) ==
  [ok |-> TRUE, host |-> host, port |-> port, path |-> path, err |-> ""]

UrlErr(e) == [ok |-> FALSE, host |-> <<>>, port |-> 0, path |-> <<>>, err |-> e]

\* a variant of starts_with_https: the scheme is compared without case
starts_with_https_nocase(u) ==
  /\ Len(u) >= 8
  /\ \A k \in 1..8 :
       (IF u[k] \in 65..90 THEN u[k] + 32 ELSE u[k]) = HttpsPrefix[k]

\* url.starts_with("https://")
starts_with_https(u) == StartsWith(u, HttpsPrefix)

parse_url(u) ==
  IF ~starts_with_https(u) THEN UrlErr("Only HTTPS URLs are supported")
  ELSE
    LET url_without_scheme == SliceFrom(u, 8)
        parts == SplitN2(url_without_scheme, 47)
        host_port == parts[1]
        path == IF Len(parts) > 1 THEN <<47>> \o parts[2] ELSE <<47>>
    IN
    IF Contains(host_port, <<58>>)
    THEN LET host_port_parts == SplitN2(host_port, 58)
             port == ParseU16(host_port_parts[2])
         IN IF port.ok THEN UrlOk(host_port_parts[1], port.val, path)
            ELSE UrlErr("ParseIntError")
    ELSE UrlOk(host_port, 443, path)

\* ------------------------------------------------------------------------
\* url_encode and parse_url: the library's copies (lib.rs)
\* ------------------------------------------------------------------------

\* a variant of lib_url_encode_char: a space becomes %20
lib_url_encode_char_pct20(c) ==
  IF c \in 65..90 \/ c \in 97..122 \/ c \in 48..57 \/ c \in {45, 95, 46, 126}
  THEN <<c>>
  ELSE LET bytes == Utf8Bytes(c) IN
       Concat([k \in 1..Len(bytes) |-> PercentHex(bytes[k])])

\* a variant of lib_url_encode_char: `+` is left as it is
lib_url_encode_char_plus(c) ==
  IF c \in 65..90 \/ c \in 97..122 \/ c \in 48..57 \/ c \in {45, 95, 46, 126, 43}
  THEN <<c>>
  ELSE IF c = 32 THEN <<43>>
  ELSE LET bytes == Utf8Bytes(c) IN
       Concat([k \in 1..Len(bytes) |-> PercentHex(bytes[k])])

\* the closure of url_encode: the image of one character
lib_url_encode_char(c) ==
  IF c \in 65..90 \/ c \in 97..122 \/ c \in 48..57 \/ c \in {45, 95, 46, 126}
  THEN <<c>>
  ELSE IF c = 32 THEN <<43>>
  ELSE LET bytes == Utf8Bytes(c) IN
       Concat([k \in 1..Len(bytes) |-> PercentHex(bytes[k])])

lib_url_encode(s) == Concat([k \in 1..Len(s) |-> lib_url_encode_char(s[k])])

\* a variant of lib_starts_with_https: the scheme is compared without case
lib_starts_with_https_nocase(u) ==
  /\ Len(u) >= 8
  /\ \A k \in 1..8 :
       (IF u[k] \in 65..90 THEN u[k] + 32 ELSE u[k]) = HttpsPrefix[k]

\* url.starts_with("https://")
lib_starts_with_https(u) == StartsWith(u, HttpsPrefix)

\* a variant of lib_parse_url: the path is the text after the first `/`
lib_parse_url_bare_path(u) ==
  IF ~lib_starts_with_https(u) THEN UrlErr("Only HTTPS URLs are supported")
  ELSE
    LET url_without_scheme == SliceFrom(u, 8)
        parts == SplitN2(url_without_scheme, 47)
        host_port == parts[1]
        path == IF Len(parts) > 1 THEN parts[2] ELSE <<47>>
    IN
    IF Contains(host_port, <<58>>)
    THEN LET host_port_parts == SplitN2(host_port, 58)
             port == ParseU16(host_port_parts[2])
         IN IF port.ok THEN UrlOk(host_port_parts[1], port.val, path)
            ELSE UrlErr("ParseIntError")
    ELSE UrlOk(host_port, 443, path)

\* a variant of lib_parse_url: an empty host is an error
lib_parse_url_host_required(u) ==
  IF ~lib_starts_with_https(u) THEN UrlErr("Only HTTPS URLs are supported")
  ELSE
    LET url_without_scheme == SliceFrom(u, 8)
        parts == SplitN2(url_without_scheme, 47)
        host_port == parts[1]
        path == IF Len(parts) > 1 THEN <<47>> \o parts[2] ELSE <<47>>
    IN
    IF Contains(host_port, <<58>>)
    THEN LET host_port_parts == SplitN2(host_port, 58)
             port == ParseU16(host_port_parts[2])
         IN IF host_port_parts[1] = <<>> THEN UrlErr("empty host")
            ELSE IF port.ok THEN UrlOk(host_port_parts[1], port.val, path)
            ELSE UrlErr("ParseIntError")
    ELSE IF host_port = <<>> THEN UrlErr("empty host")
    ELSE UrlOk(host_port, 443, path)

lib_parse_url(u) ==
  IF ~lib_starts_with_https(u) THEN UrlErr("Only HTTPS URLs are supported")
  ELSE
    LET url_without_scheme == SliceFrom(u, 8)
        parts == SplitN2(url_without_scheme, 47)
        host_port == parts[1]
        path == IF Len(parts) > 1 THEN <<47>> \o parts[2] ELSE <<47>>
    IN
    IF Contains(host_port, <<58>>)
    THEN LET host_port_parts == SplitN2(host_port, 58)
             port == ParseU16(host_port_parts[2])
         IN IF port.ok THEN UrlOk(host_port_parts[1], port.val, path)
            ELSE UrlErr("ParseIntError")
    ELSE UrlOk(host_port, 443, path)

\* ------------------------------------------------------------------------
\* The notification form and the HTTP request (send_notification_rustls)
\* ------------------------------------------------------------------------

\* "https://api.pushover.net/1/messages.json"
PUSHOVER_API_URL ==
  <<104, 116, 116, 112, 115, 58, 47, 47, 97, 112, 105, 46, 112, 117, 115,
    104, 111, 118, 101, 114, 46, 110, 101, 116, 47, 49, 47, 109, 101, 115,
    115, 97, 103, 101, 115, 46, 106, 115, 111, 110>>

\* "token="
KeyToken == <<116, 111, 107, 101, 110, 61>>

\* "user="
KeyUser == <<117, 115, 101, 114, 61>>

\* "title="
KeyTitle == <<116, 105, 116, 108, 101, 61>>

\* "message="
KeyMessage == <<109, 101, 115, 115, 97, 103, 101, 61>>

\* "priority="
KeyPriority == <<112, 114, 105, 111, 114, 105, 116, 121, 61>>

\* "sound="
KeySound == <<115, 111, 117, 110, 100, 61>>

\* "device="
KeyDevice == <<100, 101, 118, 105, 99, 101, 61>>

\* format!("priority={}", priority)
PriorityPart(p) == KeyPriority \o Decimal(p)

\* a variant of BaseParts: the title is inserted as it is
BasePartsRawTitle(cfg, t, m) ==
  << KeyToken \o url_encode(cfg.pushover.token),
     KeyUser \o url_encode(cfg.pushover.user),
     KeyTitle \o t,
     KeyMessage \o url_encode(m) >>

\* the four parts every form starts with
BaseParts(cfg, t, m) ==
  << KeyToken \o url_encode(cfg.pushover.token),
     KeyUser \o url_encode(cfg.pushover.user),
     KeyTitle \o url_encode(t),
     KeyMessage \o url_encode(m) >>

\* the parts pushed for the optional [notification] section
NotificationParts(cfg) ==
  IF IsSome(cfg.notification)
  THEN LET n == Unwrap(cfg.notification) IN
       (IF IsSome(n.sound) THEN <<KeySound \o url_encode(Unwrap(n.sound))>> ELSE <<>>)
       \o (IF IsSome(n.device) THEN <<KeyDevice \o url_encode(Unwrap(n.device))>> ELSE <<>>)
  ELSE <<>>

\* a variant of FormParts: the priority is pushed only when it is positive
FormPartsPositive(cfg, t, m, p) ==
  BaseParts(cfg, t, m)
  \o (IF p > 0 THEN <<PriorityPart(p)>> ELSE <<>>)
  \o NotificationParts(cfg)

\* form_parts, in the order they are pushed
FormParts(cfg, t, m, p) ==
  BaseParts(cfg, t, m)
  \o (IF p # 0 THEN <<PriorityPart(p)>> ELSE <<>>)
  \o NotificationParts(cfg)

\* form_data = form_parts.join("&")
FormData(cfg, t, m, p) == Join(FormParts(cfg, t, m, p), <<38>>)

\* a variant of ContentLength: the blank line before the body is counted too
ContentLengthOffByTwo(body) == ByteLen(body) + 2

\* the Content-Length value: form_data.len()
ContentLength(body) == ByteLen(body)

\* the request text of the format! call
Request(path, host, body) ==
  \* "POST {} HTTP/1.1\r\n"
  <<80, 79, 83, 84, 32>> \o path \o <<32, 72, 84, 84, 80, 47, 49, 46, 49, 13, 10>>
  \* "Host: {}\r\n"
  \o <<72, 111, 115, 116, 58, 32>> \o host \o <<13, 10>>
  \* "Content-Type: application/x-www-form-urlencoded\r\n"
  \o <<67, 111, 110, 116, 101, 110, 116, 45, 84, 121, 112, 101, 58, 32, 97,
       112, 112, 108, 105, 99, 97, 116, 105, 111, 110, 47, 120, 45, 119, 119,
       119, 45, 102, 111, 114, 109, 45, 117, 114, 108, 101, 110, 99, 111, 100,
       101, 100, 13, 10>>
  \* "Content-Length: {}\r\n"
  \o <<67, 111, 110, 116, 101, 110, 116, 45, 76, 101, 110, 103, 116, 104, 58, 32>>
  \o Decimal(ContentLength(body)) \o <<13, 10>>
  \* "Connection: close\r\n"
  \o <<67, 111, 110, 110, 101, 99, 116, 105, 111, 110, 58, 32, 99, 108, 111,
       115, 101, 13, 10>>
  \* "User-Agent: pushover-rust/1.0\r\n"
  \o <<85, 115, 101, 114, 45, 65, 103, 101, 110, 116, 58, 32, 112, 117, 115,
       104, 111, 118, 101, 114, 45, 114, 117, 115, 116, 47, 49, 46, 48, 13, 10>>
  \* "\r\n{}"
  \o <<13, 10>> \o body

\* ------------------------------------------------------------------------
\* The response check (send_notification_rustls)
\* ------------------------------------------------------------------------

\* String::from_utf8_lossy on the bytes a modelled peer sends: ASCII bytes and
\* 0xFF.  An ASCII byte is its own character; 0xFF starts no UTF-8 sequence and
\* is replaced, each occurrence on its own, by U+FFFD.
from_utf8_lossy(bytes) ==
  [k \in 1..Len(bytes) |-> IF bytes[k] < 128 THEN bytes[k] ELSE 65533]

\* str::lines().next(): None for the empty text; else the text before the first
\* "\n", without the "\r" of a "\r\n" ending
FirstLine(s) ==
  IF s = <<>> THEN None
  ELSE LET k == IndexOf(s, 10) IN
       IF k = 0 THEN Some(s)
       ELSE IF k > 1 /\ s[k - 1] = 13 THEN Some(SubSeq(s, 1, k - 2))
       ELSE Some(SubSeq(s, 1, k - 1))

\* "200"
Status200 == <<50, 48, 48>>

\* a variant of StatusLineOk: the status line must begin with "200"
StatusLineOkPrefix(status_line) == StartsWith(status_line, Status200)

\* whether the status line passes: status_line.contains("200")
StatusLineOk(status_line) == Contains(status_line, Status200)

\* Result<(), Box<dyn Error>> of send_notification_rustls
Ok == [ok |-> TRUE, stage |-> "", msg |-> "", detail |-> <<>>]

Err(stage, msg, detail) ==
  [ok |-> FALSE, stage |-> stage, msg |-> msg, detail |-> detail]

\* lines 189-197: the check of the response that was read
ValidateResponse(resp) ==
  LET response_str == from_utf8_lossy(resp)
      first == FirstLine(response_str)
  IN IF IsSome(first) /\ ~StatusLineOk(Unwrap(first))
     THEN Err("validate", "HTTP request failed: {}", Unwrap(first))
     ELSE Ok

\* ------------------------------------------------------------------------
\* State
\* ------------------------------------------------------------------------

VARIABLES
  \* the environment of one run
  args,          \* argv without the program name: args[k] is Rust's args[k]
  cfg_file,      \* the two configuration files, each None or Some(file)
  env_hostname,  \* the HOSTNAME variable, None when unset
  peer,          \* what the server will send, and how its stream ends
  \* main
  pc,            \* the statement the process is at
  config,        \* None until load_config has returned Ok
  title,
  message,
  priority,
  i,             \* the index of the argument loop
  stderr,        \* the lines written to standard error
  stdout,        \* the lines written to standard output
  exit_code,     \* None while the process runs
  \* send_notification_rustls
  target,        \* None, or the result of parse_url
  form_data,     \* None, or the form body that was built
  conns,         \* the number of TcpStream::connect calls made
  sent,          \* the bytes written to the TLS stream
  response,      \* the bytes read from the TLS stream
  done,          \* the fallible stages executed so far, in order
  result,        \* None, or the Result the function returned
  \* the library functions called on their own
  text,
  encoded,
  url,
  parsed,
  \* the binary's copies of the same functions called on the same inputs
  main_encoded,
  main_parsed

envVars == <<args, cfg_file, env_hostname, peer>>

mainVars == <<pc, config, title, message, priority, i, stderr, stdout, exit_code>>

sendVars == <<target, form_data, conns, sent, response, done, result>>

libVars == <<text, encoded, url, parsed, main_encoded, main_parsed>>

vars == <<envVars, mainVars, sendVars, libVars>>

\* ------------------------------------------------------------------------
\* main: configuration, arguments, usage
\* ------------------------------------------------------------------------

\* "-t"
DashT == <<45, 116>>

\* "-m"
DashM == <<45, 109>>

\* "-p"
DashP == <<45, 112>>

\* "-h"
DashH == <<45, 104>>

\* "--help"
LongHelp == <<45, 45, 104, 101, 108, 112>>

\* one eprintln! line: its fixed text and the value formatted into it
Line(msg, arg) == [msg |-> msg, arg |-> arg]

\* the eprintln! lines of usage(), which then ends the process with code 1
UsageText ==
  << Line("Usage: {} -t <title> -m <message> [OPTIONS]", <<>>),
     Line("  -t <title>      Title of the notification", <<>>),
     Line("  -m <message>    Message of the notification", <<>>),
     Line("  -p <priority>   Priority (-2 to 2, default: 0)", <<>>),
     Line("  -h, --help      Show this help message", <<>>),
     Line("", <<>>),
     Line("Configuration:", <<>>),
     Line("  Reads configuration from /etc/pushover/config.toml", <<>>),
     Line("  Falls back to etc/pushover/config.toml for development", <<>>) >>

\* eprintln!(msg, arg); usage();  -- the process ends here
usage(lines) ==
  /\ stderr' = stderr \o lines \o UsageText
  /\ exit_code' = Some(1)
  /\ pc' = "exit"

\* load_config(): the system file if it can be read, else the local one; then
\* the TOML parse of the file that was read
load_config(fs) ==
  LET chosen == IF IsSome(fs.system) THEN fs.system ELSE fs.local IN
  IF ~IsSome(chosen) THEN [ok |-> FALSE, err |-> "Config file not found. Tried {} and {}"]
  ELSE IF ~Unwrap(chosen).valid
    THEN [ok |-> FALSE, err |-> "Invalid TOML in config file {}: {}"]
  ELSE [ok |-> TRUE, config |-> Unwrap(chosen).content]

\* config.pushover.default_title, or "<HOSTNAME or localhost> @"
DefaultTitle(cfg, hostname) ==
  IF IsSome(cfg.pushover.default_title) THEN Unwrap(cfg.pushover.default_title)
  ELSE (IF IsSome(hostname) THEN Unwrap(hostname)
        ELSE <<108, 111, 99, 97, 108, 104, 111, 115, 116>>) \o <<32, 64>>

\* main, lines 201-225: load the configuration and set the defaults
LoadConfig ==
  /\ pc = "load_config"
  /\ LET r == load_config(cfg_file) IN
     IF r.ok
     THEN /\ config' = Some(r.config)
          /\ title' = DefaultTitle(r.config, env_hostname)
          /\ message' = <<>>
          /\ priority' = 0
          /\ i' = 1
          /\ pc' = "parse_args"
          /\ UNCHANGED <<stderr, exit_code>>
     ELSE /\ stderr' = stderr \o
               << Line("Error loading configuration: {}", <<>>),
                  Line("Please ensure /etc/pushover/config.toml exists and is properly configured.", <<>>) >>
          /\ exit_code' = Some(1)
          /\ pc' = "exit"
          /\ UNCHANGED <<config, title, message, priority, i>>
  /\ UNCHANGED <<envVars, stdout, sendVars, libVars>>

\* whether the flag at index k is the last argument: i + 1 >= args.len()
MissingValue(k) == k + 1 > Len(args)

\* the priority a -p value sets: Ok(p) with p in -2..=2
PriorityInRange(p) == p \in -2..2

\* a variant of ParseArg: -m also sets the priority back to 0
ParseArgResetting ==
  /\ pc = "parse_args"
  /\ i <= Len(args)
  /\ LET arg == args[i] IN
     IF arg = DashT THEN
       IF MissingValue(i)
       THEN /\ usage(<<Line("Option -t requires an argument.", <<>>)>>)
            /\ UNCHANGED <<title, message, priority, i>>
       ELSE /\ title' = args[i + 1]
            /\ i' = i + 2
            /\ UNCHANGED <<message, priority, pc, stderr, exit_code>>
     ELSE IF arg = DashM THEN
       IF MissingValue(i)
       THEN /\ usage(<<Line("Option -m requires an argument.", <<>>)>>)
            /\ UNCHANGED <<title, message, priority, i>>
       ELSE /\ message' = args[i + 1]
            /\ priority' = 0
            /\ i' = i + 2
            /\ UNCHANGED <<title, pc, stderr, exit_code>>
     ELSE IF arg = DashP THEN
       IF MissingValue(i)
       THEN /\ usage(<<Line("Option -p requires an argument.", <<>>)>>)
            /\ UNCHANGED <<title, message, priority, i>>
       ELSE LET p == ParseI8(args[i + 1]) IN
            IF p.ok /\ PriorityInRange(p.val)
            THEN /\ priority' = p.val
                 /\ i' = i + 2
                 /\ UNCHANGED <<title, message, pc, stderr, exit_code>>
            ELSE IF p.ok
            THEN /\ usage(<<Line("Priority must be between -2 and 2.", <<>>)>>)
                 /\ UNCHANGED <<title, message, priority, i>>
            ELSE /\ usage(<<Line("Priority must be a valid integer.", <<>>)>>)
                 /\ UNCHANGED <<title, message, priority, i>>
     ELSE IF arg = DashH \/ arg = LongHelp THEN
       /\ usage(<<>>)
       /\ UNCHANGED <<title, message, priority, i>>
     ELSE IF StartsWith(arg, <<45>>) THEN
       /\ usage(<<Line("Invalid option {}", arg)>>)
       /\ UNCHANGED <<title, message, priority, i>>
     ELSE
       /\ usage(<<Line("Unexpected argument: {}", arg)>>)
       /\ UNCHANGED <<title, message, priority, i>>
  /\ UNCHANGED <<envVars, config, stdout, sendVars, libVars>>

\* main, lines 227-275: one iteration of the argument loop
ParseArg ==
  /\ pc = "parse_args"
  /\ i <= Len(args)
  /\ LET arg == args[i] IN
     IF arg = DashT THEN
       IF MissingValue(i)
       THEN /\ usage(<<Line("Option -t requires an argument.", <<>>)>>)
            /\ UNCHANGED <<title, message, priority, i>>
       ELSE /\ title' = args[i + 1]
            /\ i' = i + 2
            /\ UNCHANGED <<message, priority, pc, stderr, exit_code>>
     ELSE IF arg = DashM THEN
       IF MissingValue(i)
       THEN /\ usage(<<Line("Option -m requires an argument.", <<>>)>>)
            /\ UNCHANGED <<title, message, priority, i>>
       ELSE /\ message' = args[i + 1]
            /\ i' = i + 2
            /\ UNCHANGED <<title, priority, pc, stderr, exit_code>>
     ELSE IF arg = DashP THEN
       IF MissingValue(i)
       THEN /\ usage(<<Line("Option -p requires an argument.", <<>>)>>)
            /\ UNCHANGED <<title, message, priority, i>>
       ELSE LET p == ParseI8(args[i + 1]) IN
            IF p.ok /\ PriorityInRange(p.val)
            THEN /\ priority' = p.val
                 /\ i' = i + 2
                 /\ UNCHANGED <<title, message, pc, stderr, exit_code>>
            ELSE IF p.ok
            THEN /\ usage(<<Line("Priority must be between -2 and 2.", <<>>)>>)
                 /\ UNCHANGED <<title, message, priority, i>>
            ELSE /\ usage(<<Line("Priority must be a valid integer.", <<>>)>>)
                 /\ UNCHANGED <<title, message, priority, i>>
     ELSE IF arg = DashH \/ arg = LongHelp THEN
       /\ usage(<<>>)
       /\ UNCHANGED <<title, message, priority, i>>
     ELSE IF StartsWith(arg, <<45>>) THEN
       /\ usage(<<Line("Invalid option {}", arg)>>)
       /\ UNCHANGED <<title, message, priority, i>>
     ELSE
       /\ usage(<<Line("Unexpected argument: {}", arg)>>)
       /\ UNCHANGED <<title, message, priority, i>>
  /\ UNCHANGED <<envVars, config, stdout, sendVars, libVars>>

\* a variant of CheckMessage: an empty message is sent
CheckMessageSkipped ==
  /\ pc = "parse_args"
  /\ i > Len(args)
  /\ pc' = "parse_url"
  /\ UNCHANGED <<stderr, exit_code>>
  /\ UNCHANGED <<envVars, config, title, message, priority, i, stdout, sendVars, libVars>>

\* main, lines 277-281: the loop has ended; the message must not be empty
CheckMessage ==
  /\ pc = "parse_args"
  /\ i > Len(args)
  /\ IF message = <<>>
     THEN usage(<<Line("Message is required.", <<>>)>>)
     ELSE /\ pc' = "parse_url"
          /\ UNCHANGED <<stderr, exit_code>>
  /\ UNCHANGED <<envVars, config, title, message, priority, i, stdout, sendVars, libVars>>

\* ------------------------------------------------------------------------
\* send_notification_rustls, statement by statement
\* ------------------------------------------------------------------------

\* one entry of `done`: a fallible stage and whether it succeeded
Stage(name, ok) == [stage |-> name, ok |-> ok]

\* line 118: parse_url(PUSHOVER_API_URL)?
ResolveUrl ==
  /\ pc = "parse_url"
  /\ LET r == parse_url(PUSHOVER_API_URL) IN
     /\ target' = Some(r)
     /\ done' = Append(done, Stage("parse_url", r.ok))
     /\ pc' = IF r.ok THEN "build_form" ELSE "report"
     /\ result' = IF r.ok THEN result ELSE Some(Err("parse_url", r.err, <<>>))
  /\ UNCHANGED <<envVars, config, title, message, priority, i, stderr, stdout, exit_code,
                 form_data, conns, sent, response, libVars>>

\* lines 120-143: the form body
BuildForm ==
  /\ pc = "build_form"
  /\ form_data' = Some(FormData(Unwrap(config), title, message, priority))
  /\ pc' = "connect"
  /\ UNCHANGED <<envVars, config, title, message, priority, i, stderr, stdout, exit_code,
                 target, conns, sent, response, done, result, libVars>>

\* a variant of AfterConnect: a failed connect is tried again
AfterConnectRetry(ok) == IF ok THEN "write" ELSE "connect"

\* where the function goes after TcpStream::connect returned
AfterConnect(ok) == IF ok THEN "write" ELSE "report"

\* lines 145-164: the TLS client and the TCP connection; the name lookup or the
\* connect may fail
Connect ==
  /\ pc = "connect"
  /\ \E ok \in BOOLEAN :
       /\ conns' = conns + 1
       /\ done' = Append(done, Stage("connect", ok))
       /\ pc' = AfterConnect(ok)
       /\ result' = IF ok THEN result ELSE Some(Err("connect", "io error", <<>>))
  /\ UNCHANGED <<envVars, config, title, message, priority, i, stderr, stdout, exit_code,
                 target, form_data, sent, response, libVars>>

\* a variant of AfterWrite: the error of write_all is dropped
AfterWriteIgnored(ok) == "read"

\* where the function goes after write_all returned
AfterWrite(ok) == IF ok THEN "read" ELSE "report"

\* what reached the stream when write_all failed: nothing (the handshake, made
\* on the first write, failed), or a proper prefix of the request
PartialWrites(bytes) == {SubSeq(bytes, 1, n) : n \in {0, 1, Len(bytes) - 1}}

\* lines 166-183: frame the request and write it
WriteAll ==
  /\ pc = "write"
  /\ LET t == Unwrap(target)
         request == Request(t.path, t.host, Unwrap(form_data))
     IN \E ok \in BOOLEAN :
          /\ done' = Append(done, Stage("write", ok))
          /\ pc' = AfterWrite(ok)
          /\ IF ok
             THEN /\ sent' = AsBytes(request)
                  /\ UNCHANGED result
             ELSE /\ sent' \in PartialWrites(AsBytes(request))
                  /\ result' = Some(Err("write", "io error", <<>>))
  /\ UNCHANGED <<envVars, config, title, message, priority, i, stderr, stdout, exit_code,
                 target, form_data, conns, response, libVars>>

\* lines 186-187, read_to_end: one more byte arrives
Recv ==
  /\ pc = "read"
  /\ Len(response) < Len(peer.data)
  /\ response' = Append(response, peer.data[Len(response) + 1])
  /\ UNCHANGED <<envVars, mainVars, target, form_data, conns, sent, done, result, libVars>>

\* where the function goes after read_to_end returned
AfterRead(ok) == IF ok THEN "validate" ELSE "report"

\* a variant of ReadEnd: the read also returns Ok once a whole line has arrived
ReadEndAtLine ==
  /\ pc = "read"
  /\ \/ \E k \in 1..Len(response) : response[k] = 10
     \/ Len(response) = Len(peer.data) /\ peer.eof \in {"close", "error"}
  /\ LET ok == \/ \E k \in 1..Len(response) : response[k] = 10
               \/ peer.eof = "close"
     IN /\ done' = Append(done, Stage("read", ok))
        /\ pc' = AfterRead(ok)
        /\ result' = IF ok THEN result ELSE Some(Err("read", "io error", <<>>))
  /\ UNCHANGED <<envVars, config, title, message, priority, i, stderr, stdout, exit_code,
                 target, form_data, conns, sent, response, libVars>>

\* lines 186-187, read_to_end returns: the peer closed the stream (Ok), or the
\* read failed (Err).  A peer that stalls leaves the call blocked.
ReadEnd ==
  /\ pc = "read"
  /\ Len(response) = Len(peer.data)
  /\ peer.eof \in {"close", "error"}
  /\ done' = Append(done, Stage("read", peer.eof = "close"))
  /\ pc' = AfterRead(peer.eof = "close")
  /\ result' = IF peer.eof = "close" THEN result
               ELSE Some(Err("read", "io error", <<>>))
  /\ UNCHANGED <<envVars, config, title, message, priority, i, stderr, stdout, exit_code,
                 target, form_data, conns, sent, response, libVars>>

\* lines 189-197: check the response and return
Validate ==
  /\ pc = "validate"
  /\ done' = Append(done, Stage("validate", ValidateResponse(response).ok))
  /\ result' = Some(ValidateResponse(response))
  /\ pc' = "report"
  /\ UNCHANGED <<envVars, config, title, message, priority, i, stderr, stdout, exit_code,
                 target, form_data, conns, sent, response, libVars>>

\* a variant of Report: the error is printed and the process returns normally
ReportThenReturn ==
  /\ pc = "report"
  /\ LET r == Unwrap(result) IN
     IF r.ok
     THEN /\ exit_code' = Some(0)
          /\ UNCHANGED stderr
     ELSE /\ stderr' = Append(stderr, Line("Error sending notification: {}", r.detail))
          /\ exit_code' = Some(0)
  /\ pc' = "exit"
  /\ UNCHANGED <<envVars, config, title, message, priority, i, stdout, sendVars, libVars>>

\* main, lines 284-292: silent on Ok; on Err print it and exit with code 1
Report ==
  /\ pc = "report"
  /\ LET r == Unwrap(result) IN
     IF r.ok
     THEN /\ exit_code' = Some(0)
          /\ UNCHANGED stderr
     ELSE /\ stderr' = Append(stderr, Line("Error sending notification: {}", r.detail))
          /\ exit_code' = Some(1)
  /\ pc' = "exit"
  /\ UNCHANGED <<envVars, config, title, message, priority, i, stdout, sendVars, libVars>>

Next ==
  \/ LoadConfig
  \/ ParseArg
  \/ CheckMessage
  \/ ResolveUrl
  \/ BuildForm
  \/ Connect
  \/ WriteAll
  \/ Recv
  \/ ReadEnd
  \/ Validate
  \/ Report

\* ------------------------------------------------------------------------
\* The library functions called on their own (tests/unit_tests.rs)
\* ------------------------------------------------------------------------

\* url_encode(text)
CallUrlEncode ==
  /\ encoded = None
  /\ encoded' = Some(lib_url_encode(text))
  /\ UNCHANGED <<envVars, mainVars, sendVars, text, url, parsed, main_encoded, main_parsed>>

\* parse_url(url)
CallParseUrl ==
  /\ parsed = None
  /\ parsed' = Some(lib_parse_url(url))
  /\ UNCHANGED <<envVars, mainVars, sendVars, text, encoded, url, main_encoded, main_parsed>>

\* main.rs's url_encode(text)
CallMainUrlEncode ==
  /\ pc = "off"
  /\ main_encoded = None
  /\ main_encoded' = Some(url_encode(text))
  /\ UNCHANGED <<envVars, mainVars, sendVars, text, encoded, url, parsed, main_parsed>>

\* main.rs's parse_url(url)
CallMainParseUrl ==
  /\ pc = "off"
  /\ main_parsed = None
  /\ main_parsed' = Some(parse_url(url))
  /\ UNCHANGED <<envVars, mainVars, sendVars, text, encoded, url, parsed, main_encoded>>

\* the four functions, each called once, in any order
NextBoth ==
  \/ CallUrlEncode
  \/ CallParseUrl
  \/ CallMainUrlEncode
  \/ CallMainParseUrl

\* ------------------------------------------------------------------------
\* Inputs
\* ------------------------------------------------------------------------

\* all sequences over S of length at most n
SeqsUpTo(S, n) == UNION {[1..k -> S] : k \in 0..n}

\* "--app-token", the flag the tests pass
AppTokenFlag == <<45, 45, 97, 112, 112, 45, 116, 111, 107, 101, 110>>

\* a configuration
Config(user, token, default_title, notification) ==
  [pushover |-> [user |-> user, token |-> token, default_title |-> default_title],
   notification |-> notification]

\* the [notification] section
Notification(sound, device) == [sound |-> sound, device |-> device]

\* a configuration file: whether it parses, and what it holds
File(valid, content) == [valid |-> valid, content |-> content]

\* user "u k", token "tk", a default title "T", sound "s" and device "d"
CfgFull ==
  Config(<<117, 32, 107>>, <<116, 107>>, Some(<<84>>),
         Some(Notification(Some(<<115>>), Some(<<100>>))))

\* user "u k", token "tk", nothing else
CfgMinimal == Config(<<117, 32, 107>>, <<116, 107>>, None, None)

\* only a system file, which parses
SystemFile(c) == [system |-> Some(File(TRUE, c)), local |-> None]

\* only a local file; no file at all; a system file that does not parse, before
\* a local one that does
OtherFiles ==
  { [system |-> None, local |-> Some(File(TRUE, CfgMinimal))],
    [system |-> None, local |-> None],
    [system |-> Some(File(FALSE, CfgFull)), local |-> Some(File(TRUE, CfgFull))] }

\* a server: the bytes it sends, then "close", "error" or "hang"
Peer(data, eof) == [data |-> data, eof |-> eof]

\* "200" and close
Peer200 == Peer(<<50, 48, 48>>, "close")

\* the bytes of the modelled responses: `2`, `0`, LF, CR, 0xFF
RespBytes == {50, 48, 10, 13, 255}

AllPeers ==
  {Peer(d, e) : d \in SeqsUpTo(RespBytes, MaxResp), e \in {"close", "error", "hang"}}

\* the arguments of the runs: the flags, "-2", "3" and ""
ArgTokens ==
  {DashT, DashM, DashP, DashH, LongHelp, AppTokenFlag, <<45, 50>>, <<51>>, <<>>}

ArgLists == SeqsUpTo(ArgTokens, MaxArgs)

\* the state of a process that has just started
Start(a, fs, hn, p) ==
  /\ args = a
  /\ cfg_file = fs
  /\ env_hostname = hn
  /\ peer = p
  /\ pc = "load_config"
  /\ config = None
  /\ title = <<>>
  /\ message = <<>>
  /\ priority = 0
  /\ i = 0
  /\ stderr = <<>>
  /\ stdout = <<>>
  /\ exit_code = None
  /\ target = None
  /\ form_data = None
  /\ conns = 0
  /\ sent = <<>>
  /\ response = <<>>
  /\ done = <<>>
  /\ result = None
  /\ text = <<>>
  /\ encoded = None
  /\ url = <<>>
  /\ parsed = None
  /\ main_encoded = None
  /\ main_parsed = None

\* a read error; "20" and close; "200" and no close
OtherPeers ==
  {Peer(<<>>, "error"), Peer(<<50, 48>>, "close"), Peer(<<50, 48, 48>>, "hang")}

\* every argument list with the full configuration in the system file; the
\* short lists of -m, -h and "3" with the other files; -m 3 against the other
\* servers
Init ==
  \/ \E a \in ArgLists : Start(a, SystemFile(CfgFull), None, Peer200)
  \/ \E a \in SeqsUpTo({DashM, DashH, <<51>>}, 2), fs \in OtherFiles :
       Start(a, fs, None, Peer200)
  \/ \E p \in OtherPeers : Start(<<DashM, <<51>>>>, SystemFile(CfgFull), None, p)

Spec == Init /\ [][Next]_vars

\* -m 3 against every server
InitResp ==
  \E p \in AllPeers :
    Start(<<DashM, <<51>>>>, SystemFile(CfgFull), None, p)

SpecResp == InitResp /\ [][Next]_vars

\* the bytes of the responses of the runs that are followed to their end
LiveBytes == {50, 48, 10}

\* -m 3 against every server that sends `2`, `0` and LF
InitLive ==
  \E d \in SeqsUpTo(LiveBytes, MaxResp), e \in {"close", "error", "hang"} :
    Start(<<DashM, <<51>>>>, SystemFile(CfgFull), None, Peer(d, e))

\* the process takes its next step whenever it has one: it is the only thread,
\* and a blocking call returns when the operating system completes it.  The
\* write step is enabled exactly when pc = "write" and always leaves it, so its
\* weak fairness is that pc is infinitely often not "write".
SpecLive ==
  /\ InitLive
  /\ [][Next]_vars
  /\ WF_vars(LoadConfig)
  /\ WF_vars(ParseArg)
  /\ WF_vars(CheckMessage)
  /\ WF_vars(ResolveUrl)
  /\ WF_vars(BuildForm)
  /\ WF_vars(Connect)
  /\ []<>(pc # "write")
  /\ WF_vars(Recv)
  /\ WF_vars(ReadEnd)
  /\ WF_vars(Validate)
  /\ WF_vars(Report)

\* the arguments of the runs whose argument loop is followed to its end: the
\* three flags, "-2" and "3"
LoopTokens == {DashT, DashM, DashP, <<45, 50>>, <<51>>}

InitArgs ==
  \E a \in SeqsUpTo(LoopTokens, MaxArgs) :
    Start(a, SystemFile(CfgFull), None, Peer200)

\* main runs on: the configuration is loaded, and the loop and the statement
\* after it are executed whenever the process is at them
SpecArgs ==
  /\ InitArgs
  /\ [][Next]_vars
  /\ WF_vars(LoadConfig)
  /\ WF_vars(ParseArg)
  /\ WF_vars(CheckMessage)

\* the texts of the form's fields: "", "a b", "e-acute & =", "+%", "CJK LF", "~-_."
FieldTexts ==
  { <<>>, <<97, 32, 98>>, <<233, 38, 61>>, <<43, 37>>, <<20013, 10>>,
    <<126, 45, 95, 46>> }

\* the -p values: the decimal renderings of -2..2, and "+1"
PriorityTexts == {Decimal(p) : p \in -2..2} \cup {<<43, 49>>}

FormArgLists ==
  {<<DashM, m>> : m \in FieldTexts}
  \cup {<<DashT, t, DashM, m>> : t \in {<<>>, <<233, 38, 61>>}, m \in FieldTexts}
  \cup {<<DashM, m, DashP, p>> : m \in {<<43, 37>>, <<20013, 10>>}, p \in PriorityTexts}

FormConfigs ==
  { Config(<<117, 32, 107>>, tk, dt, n) :
      tk \in {<<116, 107>>, <<97, 38, 98, 61>>},
      dt \in {None, Some(<<84>>)},
      n \in {None}
            \cup {Some(Notification(s, d)) :
                    s \in {None, Some(<<>>), Some(<<115, 38>>)},
                    d \in {None, Some(<<100>>)}} }

InitForm ==
  \E a \in FormArgLists, c \in FormConfigs, hn \in {None, Some(<<104>>)} :
    Start(a, SystemFile(c), hn, Peer200)

SpecForm == InitForm /\ [][Next]_vars

\* the state in which only a library function is called
Library(t, u) ==
  /\ args = <<>>
  /\ cfg_file = [system |-> None, local |-> None]
  /\ env_hostname = None
  /\ peer = Peer200
  /\ pc = "off"
  /\ config = None
  /\ title = <<>>
  /\ message = <<>>
  /\ priority = 0
  /\ i = 0
  /\ stderr = <<>>
  /\ stdout = <<>>
  /\ exit_code = None
  /\ target = None
  /\ form_data = None
  /\ conns = 0
  /\ sent = <<>>
  /\ response = <<>>
  /\ done = <<>>
  /\ result = None
  /\ text = t
  /\ encoded = None
  /\ url = u
  /\ parsed = None
  /\ main_encoded = None
  /\ main_parsed = None

\* the characters of the encoded texts: B z 2 - _ . ~ (unreserved), space,
\* + % & = @ { LF (ASCII, reserved), U+00E9, U+4E2D, U+1F680 (2, 3, 4 bytes)
Alphabet ==
  {66, 122, 50, 45, 95, 46, 126, 32, 43, 37, 38, 61, 64, 123, 10, 233, 20013, 128640}

Texts == SeqsUpTo(Alphabet, MaxLen)

InitEncode == \E t \in Texts : Library(t, <<>>)

SpecEncode == InitEncode /\ [][CallUrlEncode]_vars

\* what a URL may start with
Schemes ==
  { HttpsPrefix,
    <<>>,
    \* "http://"
    <<104, 116, 116, 112, 58, 47, 47>>,
    \* "HTTPS://"
    <<72, 84, 84, 80, 83, 58, 47, 47>>,
    \* "Https://"
    <<72, 116, 116, 112, 115, 58, 47, 47>>,
    \* "ftp://"
    <<102, 116, 112, 58, 47, 47>>,
    \* "ws://"
    <<119, 115, 58, 47, 47>>,
    \* "https:/"
    <<104, 116, 116, 112, 115, 58, 47>>,
    \* " https://"
    <<32, 104, 116, 116, 112, 115, 58, 47, 47>> }

\* the characters after the scheme: a / : 8 ?
UrlChars == {97, 47, 58, 56, 63}

\* the texts after the `:` of an authority: "", "0", "443", "00443", "65535",
\* "65536", "99999", "-1", "+8", "+", "8:8", "8a", " 8"
PortTexts ==
  { <<>>, <<48>>, <<52, 52, 51>>, <<48, 48, 52, 52, 51>>,
    <<54, 53, 53, 51, 53>>, <<54, 53, 53, 51, 54>>, <<57, 57, 57, 57, 57>>,
    <<45, 49>>, <<43, 56>>, <<43>>, <<56, 58, 56>>, <<56, 97>>, <<32, 56>> }

\* what follows the authority: nothing, "/", "/%20?a#b", "/a/:8"
UrlTails ==
  { <<>>, <<47>>, <<47, 37, 50, 48, 63, 97, 35, 98>>, <<47, 97, 47, 58, 56>> }

\* every scheme before every short text, and https:// before an authority with
\* a port
Urls ==
  {s \o r : s \in Schemes, r \in SeqsUpTo(UrlChars, MaxRest)}
  \cup {HttpsPrefix \o h \o <<58>> \o p \o t :
          h \in {<<>>, <<97>>}, p \in PortTexts, t \in UrlTails}

InitUrl == \E u \in Urls : Library(<<>>, u)

SpecUrl == InitUrl /\ [][CallParseUrl]_vars

\* every text and every URL, for the two copies of each function
InitBoth ==
  \/ \E t \in Texts : Library(t, <<>>)
  \/ \E u \in Urls : Library(<<>>, u)

SpecBoth == InitBoth /\ [][NextBoth]_vars

\* ------------------------------------------------------------------------
\* Reading a form body and a request back
\* ------------------------------------------------------------------------

RECURSIVE SplitAll(_, _)
\* the pieces of s between the occurrences of ch
SplitAll(s, ch) ==
  LET k == IndexOf(s, ch) IN
  IF k = 0 THEN <<s>>
  ELSE <<SubSeq(s, 1, k - 1)>> \o SplitAll(SubSeq(s, k + 1, Len(s)), ch)

\* the key of a `key=value` segment, with its `=`; the whole segment without one
FieldKey(seg) ==
  LET k == IndexOf(seg, 61) IN IF k = 0 THEN seg ELSE SubSeq(seg, 1, k)

\* the value of a `key=value` segment
FieldValue(seg) ==
  LET k == IndexOf(seg, 61) IN IF k = 0 THEN <<>> ELSE SubSeq(seg, k + 1, Len(seg))

\* the segments of a form body
Segments(body) == SplitAll(body, 38)

\* the stages of send_notification_rustls that can fail, in order
StageOrder == <<"parse_url", "connect", "write", "read", "validate">>

\* whether stage `name` was executed
Executed(name) == \E k \in 1..Len(done) : done[k].stage = name

\* ------------------------------------------------------------------------
\* C1
\* ------------------------------------------------------------------------

\* an argument list of the documented command line: flag/value pairs of -t, -m,
\* -p and --app-token, every -p value an integer in -2..2, every --app-token
\* value a token that is not a flag, the last -m value not empty
C1_Documented(a) ==
  /\ Len(a) % 2 = 0
  /\ \A k \in 1..Len(a) : k % 2 = 1 =>
       /\ a[k] \in {DashT, DashM, DashP, AppTokenFlag}
       /\ a[k] = DashP => (ParseI8(a[k + 1]).ok /\ ParseI8(a[k + 1]).val \in -2..2)
       /\ a[k] = AppTokenFlag => (a[k + 1] # <<>> /\ a[k + 1][1] # 45)
  /\ \E k \in 1..Len(a) :
       /\ k % 2 = 1 /\ a[k] = DashM /\ a[k + 1] # <<>>
       /\ \A j \in (k + 1)..Len(a) : j % 2 = 1 => a[j] # DashM

\* the token override of a documented argument list: the value of its last
\* --app-token, None without one
C1_Override(a) ==
  LET ks == {k \in 1..Len(a) : k % 2 = 1 /\ a[k] = AppTokenFlag} IN
  IF ks = {} THEN None
  ELSE Some(a[(CHOOSE k \in ks : \A j \in ks : j <= k) + 1])

\* the raw token the claim expects in the body
C1_ExpectedToken ==
  IF IsSome(C1_Override(args)) THEN Unwrap(C1_Override(args))
  ELSE Unwrap(config).pushover.token

\* C1: token precedence.  Every run of a documented argument list whose
\* configuration loaded builds a form body, and the body's token= field is the
\* percent-encoding of the --app-token value when one is given and of the
\* configured pushover.token otherwise.
C1_TokenPrecedence ==
  (pc = "exit" /\ IsSome(config) /\ C1_Documented(args)) =>
    /\ IsSome(form_data)
    /\ Segments(Unwrap(form_data))[1] = KeyToken \o url_encode(C1_ExpectedToken)

\* C1 without an override: the part the code does implement
C1_ConfiguredToken ==
  (pc = "exit" /\ IsSome(config) /\ C1_Documented(args) /\ ~IsSome(C1_Override(args))) =>
    /\ IsSome(form_data)
    /\ Segments(Unwrap(form_data))[1] = KeyToken \o url_encode(C1_ExpectedToken)

\* ------------------------------------------------------------------------
\* C2
\* ------------------------------------------------------------------------

\* C2: an empty response is a delivery failure.  When the request was written
\* and the peer closed the stream having sent no byte, the function returns Err
\* and the process exits with code 1.
C2_EmptyResponseFails ==
  (pc = "exit" /\ Executed("read") /\ peer.eof = "close" /\ response = <<>>) =>
    /\ ~Unwrap(result).ok
    /\ exit_code = Some(1)

\* ------------------------------------------------------------------------
\* C3
\* ------------------------------------------------------------------------

\* the bytes of a response before its first LF
C3_FirstLineBytes(resp) ==
  LET n == CHOOSE n \in 0..Len(resp) :
             /\ \A k \in 1..n : resp[k] # 10
             /\ (n = Len(resp) \/ resp[n + 1] = 10)
  IN SubSeq(resp, 1, n)

\* whether the bytes 2 0 0 stand somewhere in a line
C3_Has200(line) ==
  \E k \in 1..Len(line) :
    k + 2 <= Len(line) /\ line[k] = 50 /\ line[k + 1] = 48 /\ line[k + 2] = 48

\* the first line as text: without the CR of a CRLF ending, a byte that is not
\* ASCII shown as U+FFFD
C3_LineText(resp) ==
  LET line == C3_FirstLineBytes(resp)
      ended == Len(line) < Len(resp)
      kept == IF ended /\ line # <<>> /\ line[Len(line)] = 13
              THEN SubSeq(line, 1, Len(line) - 1) ELSE line
  IN [k \in 1..Len(kept) |-> IF kept[k] < 128 THEN kept[k] ELSE 65533]

\* C3: the status check.  For every response of at least one byte that was read
\* to its end, the function returns Ok exactly when the first line contains
\* "200" somewhere, whatever the later lines hold; otherwise it returns the
\* validation error that carries the first line.
C3_StatusLine ==
  (IsSome(result) /\ Executed("validate") /\ response # <<>>) =>
    LET r == Unwrap(result) IN
    /\ r.ok <=> C3_Has200(C3_FirstLineBytes(response))
    /\ ~r.ok => /\ r.stage = "validate"
                /\ r.msg = "HTTP request failed: {}"
                /\ r.detail = C3_LineText(response)

\* a response whose first line is empty and whose second line is "200" was
\* rejected
C3_Witness ==
  /\ IsSome(result)
  /\ response = <<10, 50, 48, 48>>
  /\ ~Unwrap(result).ok
  /\ Unwrap(result).detail = <<>>

\* ------------------------------------------------------------------------
\* C4
\* ------------------------------------------------------------------------

\* C4: the stages run in order and stop at the first failure.  The executed
\* stages are a prefix of parse_url, connect, write, read, validate; only the
\* last executed stage can have failed; Ok is returned only after all five
\* succeeded and Err names the stage that failed; no connection exists before
\* the connect stage, nothing is written before the write stage or after a
\* connect failure, and nothing is read unless the write succeeded.
C4_FirstFailure ==
  /\ Len(done) <= Len(StageOrder)
  /\ \A k \in 1..Len(done) : done[k].stage = StageOrder[k]
  /\ \A k \in 1..(Len(done) - 1) : done[k].ok
  /\ IsSome(result) =>
       LET r == Unwrap(result) IN
       /\ done # <<>>
       /\ r.ok => (Len(done) = Len(StageOrder) /\ \A k \in 1..Len(done) : done[k].ok)
       /\ ~r.ok => (~done[Len(done)].ok /\ r.stage = done[Len(done)].stage)
  /\ conns > 0 => Executed("connect")
  /\ sent # <<>> => Executed("write")
  /\ response # <<>> => \E k \in 1..Len(done) : done[k].stage = "write" /\ done[k].ok

\* write_all failed: the function returned Err of the write stage and nothing
\* was read
C4_Witness ==
  /\ IsSome(result)
  /\ ~Unwrap(result).ok
  /\ Unwrap(result).stage = "write"
  /\ Len(done) = 3
  /\ response = <<>>
  /\ pc = "exit"

\* ------------------------------------------------------------------------
\* C5
\* ------------------------------------------------------------------------

\* whether a sound, a device is configured
SoundConfigured ==
  IsSome(Unwrap(config).notification) /\ IsSome(Unwrap(Unwrap(config).notification).sound)

DeviceConfigured ==
  IsSome(Unwrap(config).notification) /\ IsSome(Unwrap(Unwrap(config).notification).device)

\* the keys the claim expects, in order: token= user= title= message=, then
\* priority= sound= device= each under its condition
C5_ExpectedKeys ==
  << <<116, 111, 107, 101, 110, 61>>, <<117, 115, 101, 114, 61>>,
     <<116, 105, 116, 108, 101, 61>>, <<109, 101, 115, 115, 97, 103, 101, 61>> >>
  \o (IF priority # 0 THEN << <<112, 114, 105, 111, 114, 105, 116, 121, 61>> >> ELSE <<>>)
  \o (IF SoundConfigured THEN << <<115, 111, 117, 110, 100, 61>> >> ELSE <<>>)
  \o (IF DeviceConfigured THEN << <<100, 101, 118, 105, 99, 101, 61>> >> ELSE <<>>)

\* C5: the fields of the form body.  Split at `&`, the body is the fields token,
\* user, title, message, priority, sound, device in that order, with priority
\* present exactly when the priority is not 0, sound exactly when a sound is
\* configured and device exactly when a device is configured.
C5_FormOrder ==
  IsSome(form_data) =>
    LET segs == Segments(Unwrap(form_data)) IN
    /\ Len(segs) = Len(C5_ExpectedKeys)
    /\ \A k \in 1..Len(segs) : FieldKey(segs[k]) = C5_ExpectedKeys[k]

\* a body of priority -2 with a device and no sound
C5_Witness ==
  /\ IsSome(form_data)
  /\ priority = -2
  /\ DeviceConfigured
  /\ ~SoundConfigured
  /\ Len(Segments(Unwrap(form_data))) = 6

\* ------------------------------------------------------------------------
\* C6
\* ------------------------------------------------------------------------

\* the raw values of the fields the body holds, in order
C6_RawValues ==
  << Unwrap(config).pushover.token, Unwrap(config).pushover.user, title, message >>
  \o (IF priority # 0 THEN <<Decimal(priority)>> ELSE <<>>)
  \o (IF SoundConfigured THEN <<Unwrap(Unwrap(Unwrap(config).notification).sound)>> ELSE <<>>)
  \o (IF DeviceConfigured THEN <<Unwrap(Unwrap(Unwrap(config).notification).device)>> ELSE <<>>)

\* C6: every value of the form body is the percent-encoding of its raw value;
\* the priority value is the percent-encoding of the decimal rendering of the
\* priority, negative ones included.
C6_ValuesEncoded ==
  IsSome(form_data) =>
    LET segs == Segments(Unwrap(form_data)) IN
    /\ Len(segs) = Len(C6_RawValues)
    /\ \A k \in 1..Len(segs) : FieldValue(segs[k]) = url_encode(C6_RawValues[k])

\* a body with a negative priority, a title with `&` and `=` and a message that
\* is not ASCII
C6_Witness ==
  /\ IsSome(form_data)
  /\ priority < 0
  /\ \E k \in 1..Len(message) : message[k] > 127
  /\ \E k \in 1..Len(Unwrap(config).pushover.token) : Unwrap(config).pushover.token[k] = 38

\* ------------------------------------------------------------------------
\* C7
\* ------------------------------------------------------------------------

\* the index of the first CR LF CR LF of a request, 0 without one
C7_BlankLine(bytes) ==
  LET ks == {k \in 1..Len(bytes) :
               k + 3 <= Len(bytes) /\ SubSeq(bytes, k, k + 3) = <<13, 10, 13, 10>>}
  IN IF ks = {} THEN 0 ELSE CHOOSE k \in ks : \A j \in ks : k <= j

\* the bytes after the blank line
C7_Body(bytes) == SubSeq(bytes, C7_BlankLine(bytes) + 4, Len(bytes))

\* the index after "\r\nContent-Length: " in the head of a request, 0 without it
C7_ValueStart(bytes) ==
  LET name == <<13, 10, 67, 111, 110, 116, 101, 110, 116, 45, 76, 101, 110, 103,
                116, 104, 58, 32>>
      ks == {k \in 1..C7_BlankLine(bytes) : SubSeq(bytes, k, k + Len(name) - 1) = name}
  IN IF ks = {} THEN 0 ELSE (CHOOSE k \in ks : \A j \in ks : k <= j) + Len(name)

\* the header value: the bytes from there to the next CR
C7_Value(bytes) ==
  LET from == SubSeq(bytes, C7_ValueStart(bytes), Len(bytes))
  IN SubSeq(from, 1, IndexOf(from, 13) - 1)

\* whether write_all has written the whole request
RequestWritten == \E k \in 1..Len(done) : done[k].stage = "write" /\ done[k].ok

\* C7: Content-Length.  In every request that was written, the Content-Length
\* header is a decimal number equal to the number of bytes after the blank
\* line, and those bytes are the form body.
C7_ContentLength ==
  RequestWritten =>
    /\ C7_BlankLine(sent) > 0
    /\ C7_ValueStart(sent) > 0
    /\ C7_Value(sent) # <<>>
    /\ \A k \in 1..Len(C7_Value(sent)) : C7_Value(sent)[k] \in 48..57
    /\ DigitsValue(C7_Value(sent)) = Len(C7_Body(sent))
    /\ C7_Body(sent) = AsBytes(Unwrap(form_data))

\* a request was written whose message holds a three-byte character and whose
\* Content-Length has two digits
C7_Witness ==
  /\ RequestWritten
  /\ \E k \in 1..Len(message) : message[k] = 20013
  /\ Len(C7_Value(sent)) = 2

\* ------------------------------------------------------------------------
\* C8
\* ------------------------------------------------------------------------

\* the characters the claim lets through: ASCII letters, digits, - _ . ~
C8_Unreserved(c) ==
  \/ c \in 65..90
  \/ c \in 97..122
  \/ c \in 48..57
  \/ c \in {45, 95, 46, 126}

\* the value of an uppercase hexadecimal digit, -1 for any other character
C8_HexValue(x) ==
  IF x \in 48..57 THEN x - 48 ELSE IF x \in 65..70 THEN x - 55 ELSE 0 - 1

\* the number of bytes of the UTF-8 encoding of a character
C8_Utf8Len(c) == IF c < 128 THEN 1 ELSE IF c < 2048 THEN 2 ELSE IF c < 65536 THEN 3 ELSE 4

\* the character a UTF-8 sequence of 1 to 4 bytes stands for, -1 when the bytes
\* are no well-formed sequence
C8_Utf8Decode(bs) ==
  LET cont(b) == b \in 128..191 IN
  IF Len(bs) = 1 /\ bs[1] < 128 THEN bs[1]
  ELSE IF Len(bs) = 2 /\ bs[1] \in 194..223 /\ cont(bs[2])
    THEN (bs[1] - 192) * 64 + (bs[2] - 128)
  ELSE IF Len(bs) = 3 /\ bs[1] \in 224..239 /\ cont(bs[2]) /\ cont(bs[3])
    THEN (bs[1] - 224) * 4096 + (bs[2] - 128) * 64 + (bs[3] - 128)
  ELSE IF Len(bs) = 4 /\ bs[1] \in 240..244 /\ cont(bs[2]) /\ cont(bs[3]) /\ cont(bs[4])
    THEN (bs[1] - 240) * 262144 + (bs[2] - 128) * 4096 + (bs[3] - 128) * 64 + (bs[4] - 128)
  ELSE 0 - 1

\* whether e is n triplets `%XX`, XX uppercase hexadecimal, whose bytes are the
\* UTF-8 encoding of c
C8_Triplets(e, n, c) ==
  /\ Len(e) = 3 * n
  /\ \A j \in 1..n :
       /\ e[3 * j - 2] = 37
       /\ C8_HexValue(e[3 * j - 1]) >= 0
       /\ C8_HexValue(e[3 * j]) >= 0
  /\ C8_Utf8Decode([j \in 1..n |->
       C8_HexValue(e[3 * j - 1]) * 16 + C8_HexValue(e[3 * j])]) = c

RECURSIVE C8_Images(_, _)
\* whether e is, character by character and in order, the image of t
C8_Images(t, e) ==
  IF t = <<>> THEN e = <<>>
  ELSE LET c == Head(t)
           n == IF C8_Unreserved(c) \/ c = 32 THEN 1 ELSE 3 * C8_Utf8Len(c)
       IN /\ Len(e) >= n
          /\ IF C8_Unreserved(c) THEN e[1] = c
             ELSE IF c = 32 THEN e[1] = 43
             ELSE C8_Triplets(SubSeq(e, 1, n), C8_Utf8Len(c), c)
          /\ C8_Images(Tail(t), SubSeq(e, n + 1, Len(e)))

\* C8: url_encode, character by character.  The output is the images of the
\* input's characters in order: a letter, a digit, `-`, `_`, `.` or `~` is
\* itself, a space is `+`, and any other character is one `%XX` per byte of its
\* UTF-8 encoding with XX in uppercase hexadecimal; the empty text gives the
\* empty text.
C8_UrlEncode ==
  IsSome(encoded) =>
    /\ C8_Images(text, Unwrap(encoded))
    /\ text = <<>> => Unwrap(encoded) = <<>>

\* a text of a space and a four-byte character was encoded
C8_Witness ==
  /\ IsSome(encoded)
  /\ text = <<32, 128640>>
  /\ Len(Unwrap(encoded)) = 13

\* ------------------------------------------------------------------------
\* C9
\* ------------------------------------------------------------------------

RECURSIVE C9_Decode(_)
\* a generic percent-decoder: `+` is a space, `%XX` is the byte XX, any other
\* character is its own byte
C9_Decode(e) ==
  IF e = <<>> THEN <<>>
  ELSE IF e[1] = 43 THEN <<32>> \o C9_Decode(Tail(e))
  ELSE IF e[1] = 37 /\ Len(e) >= 3
    THEN <<C8_HexValue(e[2]) * 16 + C8_HexValue(e[3])>> \o C9_Decode(SubSeq(e, 4, Len(e)))
  ELSE <<e[1]>> \o C9_Decode(Tail(e))

\* url_encode is injective on the texts of the model: they have as many
\* encodings as there are texts
C9_Injective == Cardinality({lib_url_encode(t) : t \in Texts}) = Cardinality(Texts)

\* C9: round trip.  Decoding url_encode(text) gives back the bytes of the text,
\* and no two texts have the same encoding.
C9_RoundTrip ==
  /\ IsSome(encoded) => C9_Decode(Unwrap(encoded)) = AsBytes(text)
  /\ C9_Injective

\* a text of `+` and a space was encoded
C9_Witness ==
  /\ IsSome(encoded)
  /\ text = <<43, 32>>
  /\ Unwrap(encoded) = <<37, 50, 66, 43>>

\* ------------------------------------------------------------------------
\* C10
\* ------------------------------------------------------------------------

\* whether a text begins with the eight characters h t t p s : / /
C10_BeginsHttps(u) ==
  /\ Len(u) >= 8
  /\ u[1] = 104 /\ u[2] = 116 /\ u[3] = 116 /\ u[4] = 112
  /\ u[5] = 115 /\ u[6] = 58 /\ u[7] = 47 /\ u[8] = 47

\* C10: the scheme check of parse_url.  A text that does not begin with
\* `https://`, compared with case, is rejected with the scheme error; a text
\* that does is never rejected with it.
C10_SchemeCheck ==
  IsSome(parsed) =>
    LET r == Unwrap(parsed) IN
    /\ ~C10_BeginsHttps(url) => (~r.ok /\ r.err = "Only HTTPS URLs are supported")
    /\ C10_BeginsHttps(url) => r.err # "Only HTTPS URLs are supported"

\* a URL that begins with HTTPS:// was rejected
C10_Witness ==
  /\ IsSome(parsed)
  /\ StartsWith(url, <<72, 84, 84, 80, 83, 58, 47, 47, 97>>)
  /\ ~Unwrap(parsed).ok

\* ------------------------------------------------------------------------
\* C11-C13: the authority, the port and the path of parse_url
\* ------------------------------------------------------------------------

\* the text of u after its first eight characters
C11_Rest(u) == SubSeq(u, 9, Len(u))

\* the position of the first ch in s, 0 when there is none
C11_First(s, ch) ==
  IF \E k \in 1..Len(s) : s[k] = ch
  THEN CHOOSE k \in 1..Len(s) : s[k] = ch /\ \A j \in 1..(k - 1) : s[j] # ch
  ELSE 0

\* the text of the remainder before its first `/`, all of it when there is none
C11_Authority(u) ==
  LET rest == C11_Rest(u)
      k == C11_First(rest, 47)
  IN IF k = 0 THEN rest ELSE SubSeq(rest, 1, k - 1)

\* the text of the remainder from its first `/` on, `/` when there is none
C11_Path(u) ==
  LET rest == C11_Rest(u)
      k == C11_First(rest, 47)
  IN IF k = 0 THEN <<47>> ELSE SubSeq(rest, k, Len(rest))

\* C11: for every accepted URL the returned path is the text after https://
\* from its first `/` on, verbatim, or `/` when there is no `/`; it begins
\* with `/`; and the host is taken from the text before that `/`.
C11_PathSplit ==
  (IsSome(parsed) /\ Unwrap(parsed).ok) =>
    LET r == Unwrap(parsed)
        authority == C11_Authority(url)
    IN
    /\ r.path = C11_Path(url)
    /\ r.path[1] = 47
    /\ \/ r.host = authority
       \/ /\ Len(authority) > Len(r.host)
          /\ SubSeq(authority, 1, Len(r.host)) = r.host
          /\ authority[Len(r.host) + 1] = 58

\* https://a:443/%20?a#b was accepted with the path /%20?a#b
C11_Witness ==
  /\ IsSome(parsed)
  /\ Unwrap(parsed).ok
  /\ Unwrap(parsed).host = <<97>>
  /\ Unwrap(parsed).path = <<47, 37, 50, 48, 63, 97, 35, 98>>

RECURSIVE C12_Value(_, _)
\* the number a run of digits denotes, read from the left
C12_Value(ds, acc) ==
  IF ds = <<>> THEN acc ELSE C12_Value(Tail(ds), acc * 10 + (Head(ds) - 48))

\* the digits of a port text: the text without a leading `+`
C12_Digits(t) == IF t # <<>> /\ t[1] = 43 THEN Tail(t) ELSE t

\* whether a text denotes an unsigned 16-bit integer
C12_IsPort(t) ==
  /\ C12_Digits(t) # <<>>
  /\ \A k \in 1..Len(C12_Digits(t)) : C12_Digits(t)[k] \in 48..57
  /\ C12_Value(C12_Digits(t), 0) <= 65535

\* the text of the authority after its first `:`
C12_PortText(u) ==
  LET authority == C11_Authority(u)
      c == C11_First(authority, 58)
  IN SubSeq(authority, c + 1, Len(authority))

\* C12: the authority is split at its first `:`.  Without a `:` the host is
\* the whole authority and the port is 443.  With one, the host is the text
\* before it, and the URL is accepted exactly when the text after it denotes
\* an integer in 0..65535, which is then the port.
C12_PortSplit ==
  (IsSome(parsed) /\ C10_BeginsHttps(url)) =>
    LET r == Unwrap(parsed)
        authority == C11_Authority(url)
        c == C11_First(authority, 58)
    IN
    IF c = 0
    THEN r.ok /\ r.host = authority /\ r.port = 443
    ELSE IF C12_IsPort(C12_PortText(url))
    THEN /\ r.ok
         /\ r.host = SubSeq(authority, 1, c - 1)
         /\ r.port = C12_Value(C12_Digits(C12_PortText(url)), 0)
         /\ r.port \in 0..65535
    ELSE ~r.ok

\* https://a:99999 was rejected
C12_Witness ==
  /\ IsSome(parsed)
  /\ url = HttpsPrefix \o <<97, 58, 57, 57, 57, 57, 57>>
  /\ ~Unwrap(parsed).ok

\* whether the host part of a URL that begins with https:// is empty
C13_EmptyHost(u) ==
  \/ C11_Rest(u) = <<>>
  \/ C11_Rest(u)[1] \in {47, 58}

\* C13: https:// alone is accepted with the empty host, port 443 and path `/`;
\* and a URL whose host part is empty is accepted exactly when it has no port
\* or a port that denotes an integer in 0..65535, its host being empty.
C13_EmptyAuthority ==
  /\ (IsSome(parsed) /\ url = HttpsPrefix) =>
       Unwrap(parsed) = UrlOk(<<>>, 443, <<47>>)
  /\ (IsSome(parsed) /\ C10_BeginsHttps(url) /\ C13_EmptyHost(url)) =>
       LET r == Unwrap(parsed) IN
       /\ r.ok <=> (C11_First(C11_Authority(url), 58) = 0
                    \/ C12_IsPort(C12_PortText(url)))
       /\ r.ok => r.host = <<>>

\* https:// was parsed
C13_Witness ==
  /\ IsSome(parsed)
  /\ url = HttpsPrefix
  /\ Unwrap(parsed).ok
  /\ Unwrap(parsed).host = <<>>

\* ------------------------------------------------------------------------
\* C14-C17: the exit status, the argument list, help, --app-token
\* ------------------------------------------------------------------------

\* whether a line with this fixed text was written to standard error
C14_Printed(msg) == \E k \in 1..Len(stderr) : stderr[k].msg = msg

\* whether the usage text was written
C14_UsagePrinted == C14_Printed("Usage: {} -t <title> -m <message> [OPTIONS]")

\* whether the configuration failed to load
C14_ConfigError == C14_Printed("Error loading configuration: {}")

\* whether send_notification_rustls returned an error
C14_DispatchFailed == IsSome(result) /\ ~Unwrap(result).ok

\* C14: the exit status.  A process that has ended has code 0 or 1; it has
\* code 1 after a usage error, a configuration error or a dispatch failure;
\* it has code 0 exactly when the dispatch returned Ok, and then nothing was
\* written to standard output.  A process that has not ended has no code.
C14_ExitStatus ==
  /\ exit_code \in {None, Some(0), Some(1)}
  /\ (pc = "exit") <=> IsSome(exit_code)
  /\ pc = "exit" =>
       /\ (C14_UsagePrinted \/ C14_ConfigError \/ C14_DispatchFailed)
            => exit_code = Some(1)
       /\ exit_code = Some(0) <=> (IsSome(result) /\ Unwrap(result).ok)
       /\ exit_code = Some(0) => stdout = <<>>
       /\ exit_code = Some(1)
            => (C14_UsagePrinted \/ C14_ConfigError \/ C14_DispatchFailed)

\* a process ended with code 1 after the validation of the response failed
C14_Witness ==
  /\ pc = "exit"
  /\ exit_code = Some(1)
  /\ C14_DispatchFailed
  /\ Unwrap(result).stage = "validate"
  /\ ~C14_UsagePrinted

\* whether a text denotes an integer in -2..2
C15_IsPriority(t) ==
  LET ds == IF t # <<>> /\ t[1] \in {43, 45} THEN Tail(t) ELSE t IN
  /\ ds # <<>>
  /\ \A k \in 1..Len(ds) : ds[k] \in 48..57
  /\ C12_Value(ds, 0) <= 2

\* an argument list without a usage error: pairs of a flag and its value, every
\* -p value an integer in -2..2, and the last -m value not empty
C15_Valid(a) ==
  /\ Len(a) % 2 = 0
  /\ \A k \in 1..Len(a) : k % 2 = 1 =>
       /\ a[k] \in {DashT, DashM, DashP, AppTokenFlag}
       /\ a[k] = DashP => C15_IsPriority(a[k + 1])
  /\ \E k \in 1..Len(a) :
       /\ k % 2 = 1 /\ a[k] = DashM /\ a[k + 1] # <<>>
       /\ \A j \in (k + 1)..Len(a) : j % 2 = 1 => a[j] # DashM

\* whether anything was done on the network
C15_NetworkUsed ==
  conns > 0 \/ sent # <<>> \/ response # <<>> \/ Executed("connect")

\* C15: no network activity before validation.  A connection is opened only
\* when the configuration has loaded and the whole argument list was parsed
\* without error, the message is not empty and the priority is in -2..2.  A
\* run of any other argument list never uses the network, and when its
\* configuration loaded it ends with the usage text and code 1.
C15_NoEarlyNetwork ==
  /\ C15_NetworkUsed =>
       /\ IsSome(config)
       /\ C15_Valid(args)
       /\ i > Len(args)
       /\ message # <<>>
       /\ priority \in -2..2
       /\ ~C14_UsagePrinted
  /\ ~C15_Valid(args) => ~C15_NetworkUsed
  /\ (~C15_Valid(args) /\ IsSome(config) /\ pc = "exit") =>
       (C14_UsagePrinted /\ exit_code = Some(1))

\* -m 3 -p 3 ended as a usage error without a connection
C15_Witness ==
  /\ args = <<DashM, <<51>>, DashP, <<51>>>>
  /\ pc = "exit"
  /\ C14_Printed("Priority must be between -2 and 2.")
  /\ conns = 0

\* C16: help.  Every run whose argument list is -h or --help ends with the
\* usage text on standard error and code 1, whether or not a configuration
\* file was found and parsed.
C16_HelpAlways ==
  (args \in {<<DashH>>, <<LongHelp>>} /\ pc = "exit") =>
    (C14_UsagePrinted /\ exit_code = Some(1))

\* C16 when the configuration loads: the part the code does implement
C16_HelpWithConfig ==
  (args \in {<<DashH>>, <<LongHelp>>} /\ pc = "exit" /\ IsSome(config)) =>
    (C14_UsagePrinted /\ exit_code = Some(1))

\* whether --app-token was reported as an unknown option
C17_Rejected ==
  \E k \in 1..Len(stderr) : stderr[k] = Line("Invalid option {}", AppTokenFlag)

\* C17: --app-token.  In a run of a documented argument list with
\* --app-token <token>, the flag is never reported as an invalid option and
\* the run reaches the network stage; given as the last argument, without a
\* value, after documented pairs, it is reported as requiring an argument.
C17_AppTokenParsed ==
  /\ (IsSome(config) /\ C1_Documented(args) /\ IsSome(C1_Override(args))) =>
       /\ ~C17_Rejected
       /\ pc = "exit" => conns > 0
  /\ (IsSome(config) /\ pc = "exit" /\ args # <<>>
        /\ args[Len(args)] = AppTokenFlag
        /\ C1_Documented(SubSeq(args, 1, Len(args) - 1))) =>
       C14_Printed("Option --app-token requires an argument.")

\* the first part of C17 alone
C17_Proceeds ==
  (IsSome(config) /\ C1_Documented(args) /\ IsSome(C1_Override(args))) =>
    /\ ~C17_Rejected
    /\ pc = "exit" => conns > 0

\* ------------------------------------------------------------------------
\* C18-C19: one attempt, read until close
\* ------------------------------------------------------------------------

\* how many times stage `name` was executed
C18_Times(name) == Cardinality({k \in 1..Len(done) : done[k].stage = name})

\* whether a stage of the dispatch has failed
C18_Failed == \E k \in 1..Len(done) : ~done[k].ok

\* at most one connection and one request, the request before the response
C18_AtMostOnce ==
  /\ conns <= 1
  /\ C18_Times("connect") <= 1
  /\ C18_Times("write") <= 1
  /\ C18_Times("connect") = conns
  /\ sent # <<>> => (conns = 1 /\ C18_Times("write") = 1)
  /\ response # <<>> => RequestWritten

\* C18: single attempt.  In every run at most one connection is opened and at
\* most one request is written on it, no response byte is read before the
\* request was written, and once a stage has failed no connection is opened
\* and nothing more is written or read.
C18_SingleAttempt ==
  /\ [](C18_AtMostOnce)
  /\ [][C18_Failed => UNCHANGED <<conns, sent, response>>]_vars

\* a run ended after its only connect failed
C18_Witness ==
  /\ pc = "exit"
  /\ conns = 1
  /\ C18_Failed
  /\ done[Len(done)].stage = "connect"
  /\ sent = <<>>

\* the response is validated only after the peer closed the stream, and the
\* read returns only at the end of the stream or at a read error
C19_OnlyAfterClose ==
  /\ (pc = "validate" \/ Executed("validate")) =>
       (peer.eof = "close" /\ response = peer.data)
  /\ Executed("read") =>
       (peer.eof \in {"close", "error"} /\ response = peer.data)
  /\ peer.eof = "hang" => exit_code # Some(0)

\* C19: read until close.  The response is validated only once the peer has
\* closed the stream, whatever it sent before; with a peer that never closes
\* the process never reports success; and if the peer closes or a read error
\* occurs the process eventually exits with code 0 or 1.
C19_ReadUntilClose ==
  /\ [](C19_OnlyAfterClose)
  /\ (peer.eof \in {"close", "error"}) ~> (exit_code \in {Some(0), Some(1)})

\* the peer sent "200" and a line feed and holds the connection open: the
\* process is still reading
C19_Witness ==
  /\ peer = Peer(<<50, 48, 48, 10>>, "hang")
  /\ response = peer.data
  /\ pc = "read"
  /\ exit_code = None

\* ------------------------------------------------------------------------
\* C20: the integrity of the form's fields
\* ------------------------------------------------------------------------

\* how many times ch occurs in s
C20_Count(s, ch) == Cardinality({k \in 1..Len(s) : s[k] = ch})

\* the characters a form body may hold: letters, digits and - _ . ~ + % = &
C20_BodyChars ==
  (65..90) \cup (97..122) \cup (48..57) \cup {45, 95, 46, 126, 43, 37, 61, 38}

\* the number of fields the run emits
C20_Fields ==
  4 + (IF priority # 0 THEN 1 ELSE 0)
    + (IF SoundConfigured THEN 1 ELSE 0)
    + (IF DeviceConfigured THEN 1 ELSE 0)

\* C20: field integrity.  Whatever the token, user, title, message, sound and
\* device texts and the priority are, the form body holds one `=` for each
\* emitted field and one `&` between two fields, and no character other than
\* letters, digits and - _ . ~ + % = &; the request that carries it has no
\* line break after the blank line that ends its head.
C20_FieldIntegrity ==
  /\ IsSome(form_data) =>
       LET body == Unwrap(form_data) IN
       /\ C20_Count(body, 61) = C20_Fields
       /\ C20_Count(body, 38) = C20_Fields - 1
       /\ \A k \in 1..Len(body) : body[k] \in C20_BodyChars
  /\ (RequestWritten /\ pc = "read" /\ response = <<>>) =>
       LET carried == C7_Body(sent) IN
       /\ carried = Unwrap(form_data)
       /\ \A k \in 1..Len(carried) : carried[k] \notin {10, 13}

\* a body was built from a token with `&` and `=`, a message with a line feed
\* and a sound with `&`
C20_Witness ==
  /\ IsSome(form_data)
  /\ RequestWritten
  /\ Unwrap(config).pushover.token = <<97, 38, 98, 61>>
  /\ message = <<20013, 10>>
  /\ SoundConfigured
  /\ Unwrap(Unwrap(Unwrap(config).notification).sound) = <<115, 38>>
  /\ priority = -2

\* ------------------------------------------------------------------------
\* C21: the two copies of url_encode and parse_url
\* ------------------------------------------------------------------------

\* C21: the copies in main.rs and in lib.rs agree.  Called on the same text,
\* both url_encode copies return the same string; called on the same URL,
\* both parse_url copies fail, or both return the same host, port and path.
C21_CopiesAgree ==
  /\ (IsSome(encoded) /\ IsSome(main_encoded)) => encoded = main_encoded
  /\ (IsSome(parsed) /\ IsSome(main_parsed)) =>
       LET l == Unwrap(parsed)
           m == Unwrap(main_parsed)
       IN /\ l.ok = m.ok
          /\ l.ok => (l.host = m.host /\ l.port = m.port /\ l.path = m.path)

\* all four functions were called, the parse_url copies on https://a:8
C21_Witness ==
  /\ IsSome(encoded) /\ IsSome(main_encoded)
  /\ IsSome(parsed) /\ IsSome(main_parsed)
  /\ url = HttpsPrefix \o <<97, 58, 56>>
  /\ Unwrap(main_parsed).ok
  /\ Unwrap(main_parsed).port = 8

\* ------------------------------------------------------------------------
\* C22: the argument loop
\* ------------------------------------------------------------------------

\* the integer a -p value denotes
C22_PriorityValue(t) ==
  IF t[1] = 45 THEN 0 - C12_Value(Tail(t), 0)
  ELSE IF t[1] = 43 THEN C12_Value(Tail(t), 0)
  ELSE C12_Value(t, 0)

\* the index of the loop stays within the argument list, on a flag's position
C22_InBounds ==
  pc = "parse_args" => (i \in 1..(Len(args) + 1) /\ i % 2 = 1)

\* the positions of a flag in an argument list of flag/value pairs
C22_Positions(flag) == {k \in 1..Len(args) : k % 2 = 1 /\ args[k] = flag}

\* the value of the last occurrence of a flag
C22_Last(flag) ==
  args[(CHOOSE k \in C22_Positions(flag) : \A j \in C22_Positions(flag) : j <= k) + 1]

\* after a loop that ended without a usage error, the title, the message and
\* the priority are the values of the last -t, -m and -p, or their defaults
C22_LastWins ==
  (IsSome(config) /\ pc \notin {"load_config", "parse_args"} /\ ~C14_UsagePrinted) =>
    /\ title = IF C22_Positions(DashT) = {}
               THEN DefaultTitle(Unwrap(config), env_hostname)
               ELSE C22_Last(DashT)
    /\ message = IF C22_Positions(DashM) = {} THEN <<>> ELSE C22_Last(DashM)
    /\ priority = IF C22_Positions(DashP) = {} THEN 0
                  ELSE C22_PriorityValue(C22_Last(DashP))

\* one iteration: the process ends with the usage text and code 1, or the
\* flag's value exists, is taken as it is, and the index advances by 2 while
\* the other two settings stay as they were
C22_Iteration ==
  (pc = "parse_args" /\ i <= Len(args)) =>
    \/ /\ pc' = "exit"
       /\ exit_code' = Some(1)
       /\ Len(stderr') > Len(stderr)
       /\ UNCHANGED <<i, title, message, priority>>
    \/ /\ i + 1 <= Len(args)
       /\ i' = i + 2
       /\ pc' = "parse_args"
       /\ UNCHANGED <<stderr, exit_code>>
       /\ \/ args[i] = DashT /\ title' = args[i + 1] /\ UNCHANGED <<message, priority>>
          \/ args[i] = DashM /\ message' = args[i + 1] /\ UNCHANGED <<title, priority>>
          \/ /\ args[i] = DashP
             /\ C15_IsPriority(args[i + 1])
             /\ priority' = C22_PriorityValue(args[i + 1])
             /\ UNCHANGED <<title, message>>

\* C22: the argument loop.  Its index never passes the end of the argument
\* list; each iteration ends the process through usage() or takes the flag's
\* value from the next argument as it is and advances by 2; when a flag is
\* repeated its last value stands; and on every argument list the loop ends.
C22_ArgLoop ==
  /\ [](C22_InBounds /\ C22_LastWins)
  /\ [][C22_Iteration]_vars
  /\ (pc = "parse_args") ~> (pc # "parse_args")

\* -m -2 -m 3 was parsed: the message is 3, the title and the priority are the
\* defaults
C22_Witness ==
  /\ args = <<DashM, <<45, 50>>, DashM, <<51>>>>
  /\ pc = "parse_url"
  /\ message = <<51>>
  /\ priority = 0

====
